---------------------------- MODULE Spec2Model ----------------------------
(***************************************************************************)
(* Model of src/app.py: the exchange/refund dashboard.                     *)
(*                                                                         *)
(*   clean_dataframe   (lines 15-52)   the row validator / aggregator      *)
(*   load_google_sheet (lines 54-99)   the remote loader                   *)
(*   create_charts     (lines 101-183) the derived views                   *)
(*   main              (lines 185-243) the local-file and remote paths     *)
(*                                                                         *)
(* Text is a sequence of Unicode code points, so that the regular          *)
(* expressions of clean_dataframe keep their character classes             *)
(* ([A-Za-z0-9] and the Hangul syllable block U+AC00..U+D7A3) and so that  *)
(* groupby's key sort is the code-point order Python uses.                 *)
(*                                                                         *)
(* The three required column names are written in romanised form:          *)
(*   "modelmyeong"   = the identifier column  (U+BAA8 U+B378 U+BA85)       *)
(*   "cheoribangsik" = the category column    (U+CC98 U+B9AC U+BC29 U+C2DD)*)
(*   "suryang"       = the count column       (U+C218 U+B7C9)              *)
(***************************************************************************)
EXTENDS Integers, Sequences, FiniteSets

VARIABLES
    \* ---- clean_dataframe as a function under test ----
    df,           \* the raw table handed to clean_dataframe
    out,          \* what clean_dataframe returned for df
    df2,          \* a rearrangement of df (rows reordered / split)
    out2,         \* what clean_dataframe returned for df2
    edits,        \* how df2 was made from df: "permute" / "split" steps
    cpc,          \* "input" | "cleaned"
    \* ---- main ----
    pc,           \* position of the script run
    source,       \* value of the data_source radio
    doc,          \* the uploaded workbook / the remote document
    env,          \* what the collaborators do in this run
    idx,          \* loop position in sheet_names / sheet.worksheets()
    all_sheets,   \* the loaders' accumulator (all_sheets / processed_sheets)
    sheets_data,  \* load_google_sheet's return value as main sees it
    notices,      \* st.error / st.write notices of the current run
    tabs,         \* st.tabs titles of the current run
    history,      \* outcomes of the earlier runs of the session
    \* ---- create_charts ----
    data,         \* the cleaned table handed to create_charts
    top_models,   \* the bar chart's series (line 131)
    process_model,\* the heat map's matrix (lines 146-162)
    rpc           \* "input" | "rendered"

vars == <<df, out, df2, out2, edits, cpc, pc, source, doc, env, idx, all_sheets,
          sheets_data, notices, tabs, history, data, top_models,
          process_model, rpc>>

cleanVars == <<df, out, df2, out2, edits, cpc>>
mainVars  == <<pc, source, doc, env, idx, all_sheets, sheets_data, notices,
               tabs, history>>
chartVars == <<data, top_models, process_model, rpc>>

(***************************************************************************)
(* Generic helpers.                                                        *)
(***************************************************************************)
Range(s) == {s[i] : i \in 1..Len(s)}

RECURSIVE SumSeq(_)
SumSeq(s) == IF s = <<>> THEN 0 ELSE s[1] + SumSeq(Tail(s))

(***************************************************************************)
(* Text: sequences of code points.                                         *)
(***************************************************************************)
\* Python's str.isspace(): what str.strip() removes at both ends.
IsSpace(c) ==
    \/ c \in {9, 10, 11, 12, 13, 28, 29, 30, 31, 32, 133, 160, 5760}
    \/ (8192 <= c /\ c <= 8202)
    \/ c \in {8232, 8233, 8239, 8287, 12288}

\* \d in a Python 3 str pattern: the ASCII digits and the other Unicode
\* decimal digits (of which the model carries the full-width block).
IsDigit(c) == (48 <= c /\ c <= 57) \/ (65296 <= c /\ c <= 65305)

\* [A-Za-z0-9\uAC00-\uD7A3]: the class of line 39.
IsAlnumOrHangul(c) ==
    \/ (65 <= c /\ c <= 90)          \* A-Z
    \/ (97 <= c /\ c <= 122)         \* a-z
    \/ (48 <= c /\ c <= 57)          \* 0-9
    \/ (44032 <= c /\ c <= 55203)    \* U+AC00-U+D7A3

RECURSIVE LStrip(_)
LStrip(s) == IF s # <<>> /\ IsSpace(s[1]) THEN LStrip(Tail(s)) ELSE s

RECURSIVE RStrip(_)
RStrip(s) ==
    IF s # <<>> /\ IsSpace(s[Len(s)])
    THEN RStrip(SubSeq(s, 1, Len(s) - 1)) ELSE s

\* str.strip()
strip(s) == RStrip(LStrip(s))

\* code-point order of two texts (Python's str comparison): s < t
RECURSIVE TextLess(_, _)
TextLess(s, t) ==
    IF t = <<>> THEN FALSE
    ELSE IF s = <<>> THEN TRUE
    ELSE IF s[1] # t[1] THEN s[1] < t[1]
    ELSE TextLess(Tail(s), Tail(t))

\* str(n) of an integer
RECURSIVE Digits(_)
Digits(n) == IF n < 10 THEN <<48 + n>>
             ELSE Append(Digits(n \div 10), 48 + (n % 10))

FormatInt(n) == IF n < 0 THEN <<45>> \o Digits(-n) ELSE Digits(n)

(***************************************************************************)
(* Cells.  A sheet cell is text (every cell of the remote path, line 73),  *)
(* an integer (a numeric spreadsheet cell) or missing (NaN).               *)
(***************************************************************************)
Str(s)  == [t |-> "str", s |-> s, n |-> 0]
Num(k)  == [t |-> "int", s |-> <<>>, n |-> k]
NaNCell == [t |-> "nan", s |-> <<>>, n |-> 0]

\* Series.astype(str), element-wise (lines 29-30)
astype_str(c) ==
    CASE c.t = "str" -> c.s
      [] c.t = "int" -> FormatInt(c.n)
      [] OTHER       -> <<110, 97, 110>>          \* "nan"

\* value of a run of ASCII digits
RECURSIVE DigitsValue(_)
DigitsValue(s) ==
    IF s = <<>> THEN 0
    ELSE 10 * DigitsValue(SubSeq(s, 1, Len(s) - 1)) + (s[Len(s)] - 48)

\* pd.to_numeric(..., errors='coerce') on a text holding an integer literal
\* or no number at all: [nan |-> TRUE] is NaN.
ParseNumber(s) ==
    LET body == IF s # <<>> /\ s[1] \in {43, 45} THEN Tail(s) ELSE s
    IN  IF body # <<>> /\ \A i \in 1..Len(body) : body[i] \in 48..57
        THEN [nan |-> FALSE,
              v   |-> IF s[1] = 45 THEN -DigitsValue(body)
                      ELSE DigitsValue(body)]
        ELSE [nan |-> TRUE, v |-> 0]

\* pd.to_numeric(..., errors='coerce').fillna(0), element-wise (line 31)
to_numeric_fillna(c) ==
    CASE c.t = "int" -> c.n
      [] c.t = "nan" -> 0
      [] OTHER       -> LET p == ParseNumber(c.s)
                        IN  IF p.nan THEN 0 ELSE p.v

(***************************************************************************)
(* clean_dataframe (lines 15-52).                                          *)
(*                                                                         *)
(* A table is [null, columns, rows]: null is Python's None, columns the    *)
(* set of column names, rows the sequence of rows, a row being a record    *)
(* with one field per required column (the field of a column the table     *)
(* does not have is never read).                                           *)
(***************************************************************************)
None == [null |-> TRUE, columns |-> {}, rows |-> <<>>]

Table(cols, rows) == [null |-> FALSE, columns |-> cols, rows |-> rows]

\* DataFrame.empty: no rows or no columns
empty(t) == t.rows = <<>> \/ t.columns = {}

\* line 21
required_columns == {"modelmyeong", "cheoribangsik", "suryang"}

\* lines 42-43: the nine allowed disposition codes
valid_methods ==
    { <<45800, 49692, 48320, 49900>>,                 \* dan-sun-byeon-sim
      <<49688, 44144, 54616, 47732, 54624>>,          \* su-geo-ha-myeon-hal
      <<47932, 47049, 44368, 54872>>,                 \* mul-lyang-gyo-hwan
      <<47932, 47049, 54872, 48520>>,                 \* mul-lyang-hwan-bul
      <<49688, 44144, 54616, 47732, 32, 54624>>,      \* su-geo-ha-myeon hal
      <<50724, 48176, 49569, 54872, 48520>>,          \* o-bae-song-hwan-bul
      <<50724, 48176, 49569, 44368, 54872>>,          \* o-bae-song-gyo-hwan
      <<48376, 49324, 44368, 54872, 40, 50724, 51452, 47928, 41>>,
                                          \* bon-sa-gyo-hwan(o-ju-mun)
      <<53469, 48176, 49324, 49324, 44256, 54872, 48520>> }
                                          \* taek-bae-sa-sa-go-hwan-bul

\* lines 29-31: the three columns normalised
Normalise(r) ==
    [modelmyeong   |-> strip(astype_str(r.modelmyeong)),
     cheoribangsik |-> strip(astype_str(r.cheoribangsik)),
     suryang       |-> to_numeric_fillna(r.suryang)]

\* line 35: str.match(r'^\d+$')
MatchAllDigits(s) == s # <<>> /\ \A i \in 1..Len(s) : IsDigit(s[i])

\* how many of the characters of s from position i on are digits, at most k
RECURSIVE DigitRun(_, _, _)
DigitRun(s, i, k) ==
    IF k = 0 \/ i > Len(s) \/ ~IsDigit(s[i]) THEN 0
    ELSE 1 + DigitRun(s, i + 1, k - 1)

IsSep(s, i) == i <= Len(s) /\ s[i] \in {45, 47}

\* r'\d{2,4}[-/]\d{1,2}[-/]\d{1,2}' matched at position i, by backtracking
\* over the lengths of the first two digit groups
MatchDateAt(s, i) ==
    \E a \in 2..DigitRun(s, i, 4) :
        /\ IsSep(s, i + a)
        /\ \E b \in 1..DigitRun(s, i + a + 1, 2) :
              /\ IsSep(s, i + a + 1 + b)
              /\ DigitRun(s, i + a + b + 2, 2) >= 1

\* line 36: str.contains(r'\d{2,4}[-/]\d{1,2}[-/]\d{1,2}')
ContainsDate(s) == \E i \in 1..Len(s) : MatchDateAt(s, i)

\* line 39: str.match(r'^[^A-Za-z0-9\uAC00-\uD7A3]')
StartsSpecial(s) == s # <<>> /\ ~IsAlnumOrHangul(s[1])

\* the row filters without line 36 (the date filter forgotten)
KeepRowNoDate(r) ==
    /\ Len(r.modelmyeong) > 0
    /\ ~MatchAllDigits(r.modelmyeong)
    /\ ~StartsSpecial(r.modelmyeong)
    /\ r.cheoribangsik \in valid_methods

\* lines 34-44: the five row filters
KeepRow(r) ==
    /\ Len(r.modelmyeong) > 0
    /\ ~MatchAllDigits(r.modelmyeong)
    /\ ~ContainsDate(r.modelmyeong)
    /\ ~StartsSpecial(r.modelmyeong)
    /\ r.cheoribangsik \in valid_methods

KeyOf(r) == <<r.modelmyeong, r.cheoribangsik>>

\* order of two group keys: by identifier, then by category
KeyLess(k, l) ==
    \/ TextLess(k[1], l[1])
    \/ k[1] = l[1] /\ TextLess(k[2], l[2])

\* the keys of a set, ascending (groupby's sort=True)
RECURSIVE SortKeys(_)
SortKeys(S) ==
    IF S = {} THEN <<>>
    ELSE LET m == CHOOSE k \in S : \A l \in S \ {k} : KeyLess(k, l)
         IN  <<m>> \o SortKeys(S \ {m})

\* the count of the last row of one group (an aggregation that keeps one
\* row of the group in place of their sum)
GroupLast(rows, k) ==
    LET F[i \in 0..Len(rows)] ==
            IF i = 0 THEN 0
            ELSE IF KeyOf(rows[i]) = k THEN rows[i].suryang
                 ELSE F[i-1]
    IN  F[Len(rows)]

\* sum of the counts of the rows of one group, in row order
GroupSum(rows, k) ==
    LET F[i \in 0..Len(rows)] ==
            IF i = 0 THEN 0
            ELSE IF KeyOf(rows[i]) = k THEN F[i-1] + rows[i].suryang
                 ELSE F[i-1]
    IN  F[Len(rows)]

\* line 47: groupby(['modelmyeong', 'cheoribangsik'], as_index=False).sum()
GroupBySum(rows) ==
    LET keys == SortKeys({KeyOf(rows[i]) : i \in 1..Len(rows)})
    IN  [j \in 1..Len(keys) |->
            [modelmyeong   |-> keys[j][1],
             cheoribangsik |-> keys[j][2],
             suryang       |-> GroupSum(rows, keys[j])]]

\* line 50 with >= in place of >
PositiveOnlyGE(rows) == SelectSeq(rows, LAMBDA r : r.suryang >= 0)

\* line 50: df[df['suryang'] > 0]
PositiveOnly(rows) == SelectSeq(rows, LAMBDA r : r.suryang > 0)

\* clean_dataframe with any() in place of all() on line 22
clean_dataframe_any(t) ==
    IF t.null \/ empty(t) THEN t
    ELSE IF required_columns \cap t.columns = {} THEN None
    ELSE LET norm == [i \in 1..Len(t.rows) |-> Normalise(t.rows[i])]
             kept == SelectSeq(norm, KeepRow)
         IN  Table(required_columns, PositiveOnly(GroupBySum(kept)))

\* lines 15-52
clean_dataframe(t) ==
    IF t.null \/ empty(t) THEN t
    ELSE IF ~(required_columns \subseteq t.columns) THEN None
    ELSE LET norm == [i \in 1..Len(t.rows) |-> Normalise(t.rows[i])]
             kept == SelectSeq(norm, KeepRow)
         IN  Table(required_columns, PositiveOnly(GroupBySum(kept)))

(***************************************************************************)
(* Inputs of clean_dataframe.                                              *)
(***************************************************************************)
MaxIdLen  == 2    \* length of the identifiers enumerated over IdAlphabet
MaxDigits == 2    \* digits in the first group of the date-shaped identifiers
MaxRows   == 2    \* rows of the small tables

\* M, 1, full-width 1, -, space, and the Hangul syllable U+AC00
IdAlphabet == {77, 49, 65297, 45, 32, 44032}

RECURSIVE TextsUpTo(_, _)
TextsUpTo(A, n) ==
    IF n = 0 THEN {<<>>}
    ELSE LET S == TextsUpTo(A, n - 1)
         IN  S \cup {Append(s, c) : s \in S, c \in A}

Ones(k) == [i \in 1..k |-> 49]

\* [M] 1{a} sep 1{b} / 1{c}: dates, and near misses of the date pattern
DateShapes ==
    { pre \o Ones(a) \o <<s1>> \o Ones(b) \o <<47>> \o Ones(c) :
        pre \in {<<>>, <<77>>}, a \in 1..MaxDigits, s1 \in {45, 46},
        b \in 0..1, c \in 0..1 }

IdCells ==
    {Str(s) : s \in TextsUpTo(IdAlphabet, MaxIdLen) \cup DateShapes}
        \cup {NaNCell, Num(12)}

Dansun  == <<45800, 49692, 48320, 49900>>
SugeoA  == <<49688, 44144, 54616, 47732, 54624>>
SugeoB  == <<49688, 44144, 54616, 47732, 32, 54624>>

MethodCells ==
    { Str(Dansun), Str(SugeoA), Str(SugeoB),
      Str(<<32>> \o Dansun \o <<32>>),          \* padded: strip makes it valid
      Str(<<49688, 44144>>),                    \* not one of the nine codes
      NaNCell }

\* "2", "-1", "x", the number 3 and a missing cell
ProbeCounts == {Str(<<50>>), Str(<<45, 49>>), Str(<<120>>), Num(3), NaNCell}

\* "2", "-1", "0", "x", "" and the number 1
SmallCounts ==
    { Str(<<50>>), Str(<<45, 49>>), Str(<<48>>), Str(<<120>>), Str(<<>>),
      Num(1) }

Row(m, c, q) == [modelmyeong |-> m, cheoribangsik |-> c, suryang |-> q]

Companion == Row(Str(<<77>>), Str(Dansun), Str(<<49>>))

\* one row of any shape, alone or before / after a valid row
ProbeTables ==
    UNION { { Table(required_columns, <<r>>),
              Table(required_columns, <<r, Companion>>) } :
            r \in {Row(m, c, q) : m \in IdCells, c \in MethodCells,
                                  q \in ProbeCounts} }

SmallRows ==
    { Row(m, c, q) :
        m \in {Str(<<77>>), Str(<<44032>>)},
        c \in {Str(SugeoA), Str(SugeoB)},
        q \in SmallCounts }

RECURSIVE SeqsUpTo(_, _)
SeqsUpTo(S, n) ==
    IF n = 0 THEN {<<>>}
    ELSE LET P == SeqsUpTo(S, n - 1)
         IN  P \cup {Append(p, x) : p \in P, x \in S}

SmallTables ==
    {Table(required_columns, rows) : rows \in SeqsUpTo(SmallRows, MaxRows)}

\* tables that lack required columns (the cells of a missing column are
\* never read), with zero, one or two data rows
PartialTables ==
    { Table(cols, rows) :
        cols \in SUBSET (required_columns \cup {"bigo"}),
        rows \in { <<>>, <<Companion>>, <<Companion, Companion>> } }

RawTables == ProbeTables \cup SmallTables \cup PartialTables \cup {None}

NotRun == [null |-> TRUE, columns |-> {"not run"}, rows |-> <<>>]

MainIdle ==
    /\ pc = "start" /\ source = "none" /\ doc = <<>> /\ env = "none"
    /\ idx = 0 /\ all_sheets = <<>>
    /\ sheets_data = [none |-> TRUE, items |-> <<>>]
    /\ notices = <<>> /\ tabs = <<>> /\ history = {}

ChartsIdle ==
    /\ data = None /\ top_models = <<>>
    /\ process_model = [index |-> <<>>, columns |-> <<>>, values |-> <<>>]
    /\ rpc = "idle"

InitClean ==
    /\ df \in RawTables
    /\ out = NotRun /\ df2 = NotRun /\ out2 = NotRun /\ edits = <<>>
    /\ cpc = "input"
    /\ MainIdle /\ ChartsIdle

\* a caller hands df to clean_dataframe (lines 87, 209)
CleanCall ==
    /\ cpc = "input"
    /\ out' = clean_dataframe(df)
    /\ cpc' = "cleaned"
    /\ UNCHANGED <<df, df2, out2, edits>>
    /\ UNCHANGED mainVars /\ UNCHANGED chartVars

NextClean == CleanCall

SpecClean == InitClean /\ [][NextClean]_vars


(***************************************************************************)
(* Properties of clean_dataframe.                                          *)
(***************************************************************************)
Cleaned == cpc = "cleaned"

HasRequired(t) == ~t.null /\ required_columns \subseteq t.columns

TrimmedId(r)  == strip(astype_str(r.modelmyeong))
TrimmedCat(r) == strip(astype_str(r.cheoribangsik))

Without(t, i) ==
    Table(t.columns,
          [j \in 1..(Len(t.rows) - 1) |->
              IF j < i THEN t.rows[j] ELSE t.rows[j + 1]])

OutKeys(t) == {KeyOf(t.rows[i]) : i \in 1..Len(t.rows)}

\* C1: for every raw table that has the three required columns, every
\* record of the table clean_dataframe returns has a count > 0.
C1_CountsPositive ==
    (Cleaned /\ HasRequired(df)) =>
        \A i \in 1..Len(out.rows) : out.rows[i].suryang > 0

\* the case of C1: a table was cleaned, a record came out, and a group of
\* rows that passed the five filters was dropped because its sum was <= 0
C1_Witness ==
    /\ Cleaned /\ HasRequired(df) /\ out.rows # <<>>
    /\ \E i \in 1..Len(df.rows) :
          /\ KeepRow(Normalise(df.rows[i]))
          /\ KeyOf(Normalise(df.rows[i])) \notin OutKeys(out)

\* a date-like substring: 2-4 digits, '-' or '/', 1-2 digits, '-' or '/',
\* 1-2 digits, stated by positions
DateLike(s) ==
    \E i \in 1..Len(s), a \in 2..4, b \in 1..2, c \in 1..2 :
        /\ i + a + b + c + 1 <= Len(s)
        /\ \A k \in i..(i + a - 1) : IsDigit(s[k])
        /\ s[i + a] \in {45, 47}
        /\ \A k \in (i + a + 1)..(i + a + b) : IsDigit(s[k])
        /\ s[i + a + b + 1] \in {45, 47}
        /\ \A k \in (i + a + b + 2)..(i + a + b + c + 1) : IsDigit(s[k])

\* the five conditions of C2 on a trimmed identifier and category
Eligible(id, cat) ==
    /\ id # <<>>
    /\ \E k \in 1..Len(id) : ~IsDigit(id[k])
    /\ ~DateLike(id)
    /\ \/ (65 <= id[1] /\ id[1] <= 90) \/ (97 <= id[1] /\ id[1] <= 122)
       \/ IsDigit(id[1])
       \/ (44032 <= id[1] /\ id[1] <= 55203)
    /\ cat \in valid_methods

WithoutCategory(t, cat) ==
    Table(t.columns, SelectSeq(t.rows, LAMBDA r : TrimmedCat(r) # cat))

RowsOfCategory(t, cat) ==
    SelectSeq(t.rows, LAMBDA r : r.cheoribangsik = cat)

C10_Original ==
    Cleaned =>
        /\ (~df.null /\ ~(required_columns \subseteq df.columns)) => out.null
        /\ ~out.null => required_columns \subseteq out.columns

\* C10 as amended: null for every input table that has data rows and at
\* least one column but lacks a required column; an input that is null or
\* empty is returned as it is; so a returned table that lacks a required
\* column is empty.
C10_RejectsNonEmptyPartial ==
    Cleaned =>
        /\ (~df.null /\ ~empty(df)
               /\ ~(required_columns \subseteq df.columns)) => out.null
        /\ (df.null \/ empty(df)) => out = df
        /\ (~out.null /\ ~(required_columns \subseteq out.columns))
               => empty(out)

\* the case of C10: a table with data rows that has two of the three
\* required columns was handed in
C10_Witness ==
    /\ Cleaned /\ ~df.null /\ ~empty(df)
    /\ Cardinality(required_columns \cap df.columns) = 2
    /\ out.null


(***************************************************************************)
(* Aggregation (line 47) under rearrangements of the input rows.           *)
(***************************************************************************)
MaxAggRows == 3   \* rows of the tables that are rearranged
MaxParts   == 2   \* rows a split replaces one row by

\* rows with integer counts: three groups that pass the filters and a
\* row whose identifier is all digits
AggRows ==
    { Row(Str(<<77>>), Str(SugeoA), Str(<<50>>)),
      Row(Str(<<77>>), Str(SugeoA), Str(<<45, 49>>)),
      Row(Str(<<77>>), Str(SugeoB), Str(<<50>>)),
      Row(Str(<<44032>>), Str(SugeoA), Num(1)),
      Row(Str(<<49, 50>>), Str(SugeoA), Str(<<50>>)) }

AggTables ==
    {Table(required_columns, rows) :
        rows \in SeqsUpTo(AggRows, MaxAggRows) \ {<<>>}}

PartValues == {-1, 1, 2}

Permutations(n) ==
    {f \in [1..n -> 1..n] : \A i, j \in 1..n : f[i] = f[j] => i = j}

InitAgg ==
    /\ df \in AggTables
    /\ df2 = df /\ out = NotRun /\ out2 = NotRun /\ edits = <<>>
    /\ cpc = "input"
    /\ MainIdle /\ ChartsIdle

\* the rows of df2 are put in another order
Permute ==
    /\ cpc = "input" /\ edits = <<>>
    /\ \E f \in Permutations(Len(df2.rows)) :
          /\ \E i \in 1..Len(df2.rows) : f[i] # i
          /\ df2' = Table(df2.columns,
                          [i \in 1..Len(df2.rows) |-> df2.rows[f[i]]])
    /\ edits' = Append(edits, "permute")
    /\ UNCHANGED <<df, out, out2, cpc>>
    /\ UNCHANGED mainVars /\ UNCHANGED chartVars

\* one row (id, cat, n) of df2 is replaced by rows (id, cat, n1) ...
\* (id, cat, nk) with n1 + ... + nk = n
SplitRow ==
    /\ cpc = "input" /\ "split" \notin Range(edits)
    /\ \E i \in 1..Len(df2.rows),
          head \in SeqsUpTo(PartValues, MaxParts - 1) \ {<<>>} :
          LET r     == df2.rows[i]
              n     == to_numeric_fillna(r.suryang)
              parts == Append(head, n - SumSeq(head))
              repl  == [k \in 1..Len(parts) |->
                           Row(r.modelmyeong, r.cheoribangsik,
                               Num(parts[k]))]
          IN  df2' = Table(df2.columns,
                           SubSeq(df2.rows, 1, i - 1) \o repl
                             \o SubSeq(df2.rows, i + 1, Len(df2.rows)))
    /\ edits' = Append(edits, "split")
    /\ UNCHANGED <<df, out, out2, cpc>>
    /\ UNCHANGED mainVars /\ UNCHANGED chartVars

\* both tables are cleaned
CleanBoth ==
    /\ cpc = "input"
    /\ out' = clean_dataframe(df)
    /\ out2' = clean_dataframe(df2)
    /\ cpc' = "cleaned"
    /\ UNCHANGED <<df, df2, edits>>
    /\ UNCHANGED mainVars /\ UNCHANGED chartVars

NextAgg == Permute \/ SplitRow \/ CleanBoth

SpecAgg == InitAgg /\ [][NextAgg]_vars

\* C6: the table and any table made from it by reordering its rows and by
\* splitting a row into rows with the same identifier and category and
\* the same total clean to the same set of records, each with exactly one
\* record per (identifier, category) pair.
C6_OrderAndSplitInvariant ==
    Cleaned =>
        /\ Range(out2.rows) = Range(out.rows)
        /\ Cardinality(OutKeys(out)) = Len(out.rows)
        /\ Cardinality(OutKeys(out2)) = Len(out2.rows)

\* the case of C6: the rows were reordered and one of them split, and the
\* cleaned table holds more than one record
C6_Witness ==
    /\ Cleaned
    /\ edits = <<"permute", "split">>
    /\ Len(out.rows) > 1


(***************************************************************************)
(* Documents.  A worksheet is [title, raises, data]: data is the sheet's   *)
(* grid, the header row first (a row of column names), then the rows of    *)
(* cells; raises says that fetching or handling it in the remote path       *)
(* raises an exception.                                                    *)
(***************************************************************************)
MaxSheets == 3    \* worksheets of a document

Header3 == <<"modelmyeong", "cheoribangsik", "suryang">>

Grids ==
    { \* a tab that cleans to one record
      << Header3, <<Str(<<77, 49>>), Str(Dansun), Str(<<51>>)>> >>,
      \* other column order, an extra column, typed cells, two rows to sum
      << <<"suryang", "bigo", "cheoribangsik", "modelmyeong">>,
         <<Num(2), NaNCell, Str(SugeoB), Str(<<77, 50>>)>>,
         <<Num(1), Str(<<120>>), Str(SugeoB), Str(<<77, 50>>)>> >>,
      \* no count column
      << <<"modelmyeong", "cheoribangsik">>,
         <<Str(<<77, 49>>), Str(Dansun)>> >>,
      \* cleans to nothing: the identifier is all digits
      << Header3, <<Str(<<49, 50>>), Str(Dansun), Str(<<51>>)>> >>,
      \* a header and no data rows
      << Header3 >>,
      \* a blank sheet
      << >> }

WorksheetPool ==
    {[raises |-> FALSE, data |-> g] : g \in Grids}
        \cup {[raises |-> TRUE, data |-> g] :
                 g \in {<< Header3,
                           <<Str(<<77, 49>>), Str(Dansun), Str(<<51>>)>> >>}}

\* "S1", "S2", ...: a document's titles are distinct
Title(i) == <<83>> \o Digits(i)

WithTitles(ws) ==
    [i \in 1..Len(ws) |->
        [title |-> Title(i), raises |-> ws[i].raises, data |-> ws[i].data]]

Docs == {WithTitles(ws) : ws \in SeqsUpTo(WorksheetPool, MaxSheets) \ {<<>>}}

\* a workbook file: reading a sheet of it calls no remote service
LocalDocs == {d \in Docs : \A i \in 1..Len(d) : ~d[i].raises}

\* position of column c in a header row (0: absent)
ColumnIndex(headers, c) ==
    IF \E j \in 1..Len(headers) : headers[j] = c
    THEN CHOOSE j \in 1..Len(headers) :
             headers[j] = c /\ \A k \in 1..(j - 1) : headers[k] # c
    ELSE 0

CellAt(row, headers, c) ==
    IF ColumnIndex(headers, c) = 0 THEN NaNCell
    ELSE row[ColumnIndex(headers, c)]

\* pd.DataFrame(values, columns=headers) (line 84)
DataFrame(values, headers) ==
    Table(Range(headers),
          [i \in 1..Len(values) |->
              Row(CellAt(values[i], headers, "modelmyeong"),
                  CellAt(values[i], headers, "cheoribangsik"),
                  CellAt(values[i], headers, "suryang"))])

\* pd.read_excel(uploaded_file, sheet_name=...) (line 208): the first row
\* names the columns, the cells keep their types
read_excel(ws) ==
    IF ws.data = <<>> THEN Table({}, <<>>)
    ELSE DataFrame(Tail(ws.data), ws.data[1])

\* the text the remote service shows for a cell
CellText(c) ==
    CASE c.t = "str" -> c.s
      [] c.t = "int" -> FormatInt(c.n)
      [] OTHER       -> <<>>

\* worksheet.get_all_values() (line 73): every cell as text
get_all_values(ws) ==
    [i \in 1..Len(ws.data) |->
        IF i = 1 THEN ws.data[1]
        ELSE [j \in 1..Len(ws.data[i]) |-> Str(CellText(ws.data[i][j]))]]

(***************************************************************************)
(* Notices and the ordered mappings from title to table.                   *)
(***************************************************************************)
Notice(kind, title) == [kind |-> kind, title |-> title]

\* d[title] = table on a dict that keeps insertion order
DictSet(d, title, table) ==
    IF \E i \in 1..Len(d) : d[i].title = title
    THEN [i \in 1..Len(d) |->
             IF d[i].title = title THEN [title |-> title, table |-> table]
             ELSE d[i]]
    ELSE Append(d, [title |-> title, table |-> table])

Keys(d) == [i \in 1..Len(d) |-> d[i].title]

\* create_charts, lines 102-104: the notice for an absent or empty table
ChartNotices(table, title) ==
    IF table.null \/ empty(table) THEN <<Notice("chart_no_data", title)>>
    ELSE <<>>

\* the notices of create_charts called once per tab (lines 218-220, 241-243)
RECURSIVE RenderNotices(_)
RenderNotices(d) ==
    IF d = <<>> THEN <<>>
    ELSE ChartNotices(d[1].table, d[1].title) \o RenderNotices(Tail(d))


(***************************************************************************)
(* main (lines 185-243) and load_google_sheet (lines 54-99).  One run of   *)
(* the script is a load followed by the rendering of its result; every     *)
(* run starts from a blank page (no notice or tab of an earlier run is     *)
(* shown) and with fresh locals.                                           *)
(***************************************************************************)
NoResult == [none |-> TRUE, items |-> <<>>]

InitMain ==
    /\ MainIdle
    /\ df = NotRun /\ out = NotRun /\ df2 = NotRun /\ out2 = NotRun
    /\ edits = <<>> /\ cpc = "idle"
    /\ ChartsIdle

\* the user acts on a widget of the finished page: the script runs again
\* from the top, on a blank page and with no local of the earlier run
Rerun ==
    /\ pc = "done"
    /\ pc' = "start"
    /\ source' = "none" /\ doc' = <<>> /\ env' = "none" /\ idx' = 0
    /\ all_sheets' = <<>> /\ sheets_data' = NoResult
    /\ notices' = <<>> /\ tabs' = <<>>
    /\ UNCHANGED history
    /\ UNCHANGED cleanVars /\ UNCHANGED chartVars

\* lines 199-203 and 224-226: a workbook is uploaded; pd.ExcelFile raises
\* on a file it cannot read and the except branch reports it
StartLocal ==
    /\ pc = "start"
    /\ \E d \in LocalDocs, e \in {"ok", "unreadable"} :
          /\ doc' = d
          /\ env' = e
          /\ notices' = IF e = "ok" THEN <<>>
                        ELSE <<Notice("file_error", <<>>),
                               Notice("file_hint", <<>>)>>
          /\ pc' = IF e = "ok" THEN "local_loop" ELSE "done"
    /\ source' = "excel"
    /\ idx' = 1
    /\ all_sheets' = <<>>
    /\ sheets_data' = NoResult
    /\ tabs' = <<>>
    /\ UNCHANGED history
    /\ UNCHANGED cleanVars /\ UNCHANGED chartVars

\* lines 207-211 with the not-empty test of line 210 left out
LocalSheetKeepEmpty ==
    /\ pc = "local_loop" /\ idx <= Len(doc)
    /\ LET cleaned_df == clean_dataframe(read_excel(doc[idx]))
       IN  all_sheets' =
               IF ~cleaned_df.null
               THEN DictSet(all_sheets, doc[idx].title, cleaned_df)
               ELSE all_sheets
    /\ idx' = idx + 1
    /\ UNCHANGED <<pc, source, doc, env, sheets_data, notices, tabs,
                   history>>
    /\ UNCHANGED cleanVars /\ UNCHANGED chartVars

\* lines 207-211: one sheet of the workbook
LocalSheet ==
    /\ pc = "local_loop" /\ idx <= Len(doc)
    /\ LET cleaned_df == clean_dataframe(read_excel(doc[idx]))
       IN  all_sheets' =
               IF ~cleaned_df.null /\ ~empty(cleaned_df)
               THEN DictSet(all_sheets, doc[idx].title, cleaned_df)
               ELSE all_sheets
    /\ idx' = idx + 1
    /\ UNCHANGED <<pc, source, doc, env, sheets_data, notices, tabs,
                   history>>
    /\ UNCHANGED cleanVars /\ UNCHANGED chartVars

\* lines 213-222: the tabs, or the "no usable data" notice
LocalRender ==
    /\ pc = "local_loop" /\ idx > Len(doc)
    /\ IF all_sheets # <<>>
       THEN /\ tabs' = Keys(all_sheets)
            /\ notices' = notices \o RenderNotices(all_sheets)
       ELSE /\ tabs' = <<>>
            /\ notices' = Append(notices, Notice("no_data", <<>>))
    /\ pc' = "done"
    /\ UNCHANGED <<source, doc, env, idx, all_sheets, sheets_data, history>>
    /\ UNCHANGED cleanVars /\ UNCHANGED chartVars

\* lines 97-99 returning the (empty) mapping in place of None
LoadFailedReturnsMapping ==
    /\ notices' = <<Notice("load_error", <<>>)>>
    /\ sheets_data' = [none |-> FALSE, items |-> <<>>]

\* lines 97-99: the outer except branch
LoadFailed ==
    /\ notices' = <<Notice("load_error", <<>>)>>
    /\ sheets_data' = NoResult

\* lines 234-235 and 55-69: a URL is entered and load_google_sheet
\* authenticates and opens the document; either may raise
StartRemote ==
    /\ pc = "start"
    /\ \E d \in Docs, e \in {"ok", "auth_error", "open_error"} :
          /\ doc' = d
          /\ env' = e
          /\ IF e = "ok"
             THEN /\ notices' = <<>>
                  /\ sheets_data' = NoResult
                  /\ pc' = "remote_loop"
                  /\ UNCHANGED history
             ELSE /\ LoadFailed
                  /\ pc' = "done"
                  /\ history' = history \cup {"remote_fatal"}
    /\ source' = "gsheet"
    /\ idx' = 1
    /\ all_sheets' = <<>>
    /\ tabs' = <<>>
    /\ UNCHANGED cleanVars /\ UNCHANGED chartVars

\* lines 70-93 with the inner try left out: the exception of one
\* worksheet reaches the outer except branch and ends the load
RemoteSheetAbort ==
    /\ pc = "remote_loop" /\ idx <= Len(doc)
    /\ IF doc[idx].raises
       THEN /\ LoadFailed
            /\ pc' = "done"
            /\ UNCHANGED <<all_sheets, idx>>
       ELSE /\ LET grid    == get_all_values(doc[idx])
                   cleaned == clean_dataframe(DataFrame(Tail(grid), grid[1]))
               IN  all_sheets' =
                       IF /\ grid # <<>>
                          /\ required_columns \subseteq Range(grid[1])
                          /\ ~cleaned.null /\ ~empty(cleaned)
                       THEN DictSet(all_sheets, doc[idx].title, cleaned)
                       ELSE all_sheets
            /\ idx' = idx + 1
            /\ UNCHANGED <<pc, notices, sheets_data>>
    /\ UNCHANGED <<source, doc, env, tabs, history>>
    /\ UNCHANGED cleanVars /\ UNCHANGED chartVars

\* lines 70-93: one worksheet of the document
RemoteSheet ==
    /\ pc = "remote_loop" /\ idx <= Len(doc)
    /\ IF doc[idx].raises
       THEN \* lines 91-93
            /\ notices' = Append(notices,
                                 Notice("sheet_error", doc[idx].title))
            /\ UNCHANGED all_sheets
       ELSE LET grid == get_all_values(doc[idx])
            IN  /\ UNCHANGED notices
                /\ IF grid = <<>>                                \* 74-75
                   THEN UNCHANGED all_sheets
                   ELSE IF ~(required_columns \subseteq Range(grid[1]))
                   THEN UNCHANGED all_sheets                     \* 81-82
                   ELSE LET cleaned_df ==
                                clean_dataframe(
                                    DataFrame(Tail(grid), grid[1]))
                        IN  all_sheets' =
                                IF ~cleaned_df.null /\ ~empty(cleaned_df)
                                THEN DictSet(all_sheets, doc[idx].title,
                                             cleaned_df)
                                ELSE all_sheets
    /\ idx' = idx + 1
    /\ UNCHANGED <<pc, source, doc, env, sheets_data, tabs, history>>
    /\ UNCHANGED cleanVars /\ UNCHANGED chartVars

\* line 95 and lines 236-243: the mapping is returned and, when it is not
\* empty, rendered as tabs
RemoteReturn ==
    /\ pc = "remote_loop" /\ idx > Len(doc)
    /\ sheets_data' = [none |-> FALSE, items |-> all_sheets]
    /\ IF all_sheets # <<>>
       THEN /\ tabs' = Keys(all_sheets)
            /\ notices' = notices \o RenderNotices(all_sheets)
       ELSE UNCHANGED <<tabs, notices>>
    /\ pc' = "done"
    /\ UNCHANGED <<source, doc, env, idx, all_sheets, history>>
    /\ UNCHANGED cleanVars /\ UNCHANGED chartVars

Next ==
    \/ StartLocal \/ LocalSheet \/ LocalRender
    \/ StartRemote \/ RemoteSheet \/ RemoteReturn
    \/ Rerun

Spec == InitMain /\ [][Next]_vars


(***************************************************************************)
(* Properties of the loaders.                                              *)
(***************************************************************************)
Done == pc = "done"

RemoteLoaded == Done /\ source = "gsheet" /\ env = "ok"

LocalLoaded == Done /\ source = "excel" /\ env = "ok"

\* what cleaning a worksheet fetched from the remote document gives
RemoteCleaned(ws) ==
    LET grid == get_all_values(ws)
    IN  clean_dataframe(DataFrame(Tail(grid), grid[1]))

\* a worksheet that has values, the three required columns, and cleans to
\* at least one record
RemoteUsable(ws) ==
    /\ ws.data # <<>>
    /\ required_columns \subseteq Range(ws.data[1])
    /\ ~RemoteCleaned(ws).null
    /\ RemoteCleaned(ws).rows # <<>>

LocalUsable(ws) ==
    /\ required_columns \subseteq read_excel(ws).columns
    /\ ~clean_dataframe(read_excel(ws)).null
    /\ clean_dataframe(read_excel(ws)).rows # <<>>

CountOf(seq, x) == Cardinality({i \in 1..Len(seq) : seq[i] = x})

Positions(d, ok(_)) ==
    SelectSeq([i \in 1..Len(d) |-> i], LAMBDA i : ok(d[i]))

\* C3: once authentication and the opening of the document succeeded, a
\* worksheet whose handling raises gets exactly one error notice naming it
\* (and no other worksheet gets one), and every other worksheet that has the
\* required columns and cleans to a non-empty table is in the returned
\* mapping with its cleaned table, wherever the failing worksheet stands.
C3_PerTabErrorIsolated ==
    RemoteLoaded =>
        /\ ~sheets_data.none
        /\ \A i \in 1..Len(doc) :
              CountOf(notices, Notice("sheet_error", doc[i].title))
                  = IF doc[i].raises THEN 1 ELSE 0
        /\ \A i \in 1..Len(doc) :
              (~doc[i].raises /\ RemoteUsable(doc[i])) =>
                  \E k \in 1..Len(sheets_data.items) :
                      sheets_data.items[k] =
                          [title |-> doc[i].title,
                           table |-> RemoteCleaned(doc[i])]

\* the case of C3: the worksheet in the middle of three raised, and the
\* worksheets before and after it are usable
C3_Witness ==
    /\ RemoteLoaded /\ Len(doc) = 3
    /\ doc[2].raises
    /\ ~doc[1].raises /\ RemoteUsable(doc[1])
    /\ ~doc[3].raises /\ RemoteUsable(doc[3])
    /\ Len(sheets_data.items) = 2

\* the mapping a document gives when nothing of the load fails as a whole
ExpectedItems(d) ==
    LET at == Positions(d, LAMBDA ws : ~ws.raises /\ RemoteUsable(ws))
    IN  [k \in 1..Len(at) |->
            [title |-> d[at[k]].title, table |-> RemoteCleaned(d[at[k]])]]

\* C4: a remote load whose authentication or opening fails returns the null
\* signal, shows exactly one error notice and renders no tab; a load with
\* working credentials returns the mapping its document determines,
\* whatever loads came before it in the session.
C4_AuthFailureFatalAndForgotten ==
    /\ (Done /\ source = "gsheet" /\ env \in {"auth_error", "open_error"})
          => /\ sheets_data.none
             /\ notices = <<Notice("load_error", <<>>)>>
             /\ tabs = <<>>
    /\ RemoteLoaded
          => /\ sheets_data = [none |-> FALSE, items |-> ExpectedItems(doc)]
             /\ tabs = Keys(ExpectedItems(doc))
             /\ CountOf(notices, Notice("load_error", <<>>)) = 0

\* the case of C4: a load failed at authentication earlier in the session
\* and a later load with working credentials returned tabs
C4_Witness ==
    /\ RemoteLoaded
    /\ "remote_fatal" \in history
    /\ sheets_data.items # <<>>
    /\ tabs # <<>>

\* every sheet of the document was skipped: none raised, none is usable
AllSkipped ==
    IF source = "excel" THEN \A i \in 1..Len(doc) : ~LocalUsable(doc[i])
    ELSE \A i \in 1..Len(doc) : ~doc[i].raises /\ ~RemoteUsable(doc[i])

\* C5: in the local path and in the remote path, a load that ends without
\* a fatal error and with every sheet skipped shows exactly one "no usable
\* data" notice and renders no tab.
C5_NoDataNoticeBothPaths ==
    (Done /\ env = "ok" /\ AllSkipped) =>
        /\ CountOf(notices, Notice("no_data", <<>>)) = 1
        /\ tabs = <<>>

\* C7: in the local path the rendered tabs are, in workbook order, the
\* sheets that have the three required columns and clean to at least one
\* record; and when there is such a sheet, no notice of any kind is shown.
C7_LocalTabsAreUsableSheets ==
    LocalLoaded =>
        /\ tabs = [k \in 1..Len(Positions(doc, LocalUsable)) |->
                      doc[Positions(doc, LocalUsable)[k]].title]
        /\ (\E i \in 1..Len(doc) : LocalUsable(doc[i])) => notices = <<>>

\* the case of C7: a workbook with a sheet that has no count column and
\* with a usable sheet after it was rendered
C7_Witness ==
    /\ LocalLoaded
    /\ \E i, j \in 1..Len(doc) :
          /\ i < j
          /\ doc[i].data # <<>>
          /\ "suryang" \notin read_excel(doc[i]).columns
          /\ LocalUsable(doc[j])
    /\ tabs # <<>> /\ Len(tabs) < Len(doc)


(***************************************************************************)
(* create_charts (lines 101-183): the bar chart's series and the heat      *)
(* map's matrix.                                                           *)
(*                                                                         *)
(* sort_values is called without kind=, so it sorts with quicksort, which  *)
(* does not say in what order it leaves equal values.  The model's sort    *)
(* takes a parameter tie: it returns the order a stable sort gives, with   *)
(* the entries at positions tie and tie + 1 exchanged when they are equal. *)
(***************************************************************************)
BarHead  == 10    \* head(10), line 131
HeatHead == 20    \* head(20), line 147

\* the column name of line 160 (U+D569 U+ACC4)
Hapgye == <<54633, 44228>>

\* the texts of a set, ascending
RECURSIVE SortTexts(_)
SortTexts(S) ==
    IF S = {} THEN <<>>
    ELSE LET m == CHOOSE x \in S : \A y \in S \ {x} : TextLess(x, y)
         IN  <<m>> \o SortTexts(S \ {m})

RemoveAt(s, i) == SubSeq(s, 1, i - 1) \o SubSeq(s, i + 1, Len(s))

\* entries [k, v] by descending v, equal values in their given order
RECURSIVE SortDescStable(_)
SortDescStable(s) ==
    IF s = <<>> THEN <<>>
    ELSE LET i == CHOOSE i \in 1..Len(s) :
                      /\ \A j \in 1..Len(s) : s[j].v <= s[i].v
                      /\ \A j \in 1..(i - 1) : s[j].v < s[i].v
         IN  <<s[i]>> \o SortDescStable(RemoveAt(s, i))

\* entries [k, v] by ascending v, equal values in their given order
RECURSIVE SortAscStable(_)
SortAscStable(s) ==
    IF s = <<>> THEN <<>>
    ELSE LET i == CHOOSE i \in 1..Len(s) :
                      /\ \A j \in 1..Len(s) : s[j].v >= s[i].v
                      /\ \A j \in 1..(i - 1) : s[j].v > s[i].v
         IN  <<s[i]>> \o SortAscStable(RemoveAt(s, i))

ExchangeTie(s, tie) ==
    IF tie >= 1 /\ tie < Len(s) /\ s[tie].v = s[tie + 1].v
    THEN [i \in 1..Len(s) |->
             IF i = tie THEN s[tie + 1]
             ELSE IF i = tie + 1 THEN s[tie] ELSE s[i]]
    ELSE s

\* sort_values() with ascending=False left out
sort_values_ascending(s, tie) == ExchangeTie(SortAscStable(s), tie)

\* Series.sort_values(ascending=False) / DataFrame.sort_values(by, ...)
sort_values_desc(s, tie) == ExchangeTie(SortDescStable(s), tie)

head(s, n) == SubSeq(s, 1, IF Len(s) < n THEN Len(s) ELSE n)

\* data.groupby('modelmyeong')['suryang'].sum(): one entry per identifier,
\* the identifiers ascending
ModelTotals(t) ==
    LET ms == SortTexts({t.rows[i].modelmyeong : i \in 1..Len(t.rows)})
    IN  [j \in 1..Len(ms) |->
            [k |-> ms[j],
             v |-> SumSeq([i \in 1..Len(t.rows) |->
                              IF t.rows[i].modelmyeong = ms[j]
                              THEN t.rows[i].suryang ELSE 0])]]

\* line 131
TopModels(t, tie) == head(sort_values_desc(ModelTotals(t), tie), BarHead)

\* line 147 with head(10) in place of head(20)
HeatModelsTen(t, tie) ==
    LET top == head(sort_values_desc(ModelTotals(t), tie), BarHead)
    IN  {top[i].k : i \in 1..Len(top)}

\* lines 146-147: the identifiers the heat map keeps
HeatModels(t, tie) ==
    LET top == head(sort_values_desc(ModelTotals(t), tie), HeatHead)
    IN  {top[i].k : i \in 1..Len(top)}

\* pivot_table's default aggfunc, the mean of the counts of one
\* (identifier, category), or fill_value where there is none.  A cleaned
\* table has one row per pair, so the division is exact.
PivotCell(rows, m, c) ==
    LET hit == SelectSeq(rows, LAMBDA r : r.modelmyeong = m
                                           /\ r.cheoribangsik = c)
    IN  IF hit = <<>> THEN 0
        ELSE SumSeq([i \in 1..Len(hit) |-> hit[i].suryang]) \div Len(hit)

\* lines 150-157
PivotTable(rows) ==
    LET ms == SortTexts({rows[i].modelmyeong : i \in 1..Len(rows)})
        cs == SortTexts({rows[i].cheoribangsik : i \in 1..Len(rows)})
    IN  [index   |-> ms,
         columns |-> cs,
         values  |-> [i \in 1..Len(ms) |->
                        [j \in 1..Len(cs) |-> PivotCell(rows, ms[i], cs[j])]]]

\* line 160: process_model['hapgye'] = process_model.sum(axis=1)
AddTotals(pm) ==
    [index   |-> pm.index,
     columns |-> Append(pm.columns, Hapgye),
     values  |-> [i \in 1..Len(pm.values) |->
                    Append(pm.values[i], SumSeq(pm.values[i]))]]

ColumnOf(pm, name) == CHOOSE j \in 1..Len(pm.columns) : pm.columns[j] = name

\* line 161: sort_values('hapgye', ascending=False)
SortRows(pm, tie) ==
    LET col   == ColumnOf(pm, Hapgye)
        order == sort_values_desc(
                     [i \in 1..Len(pm.index) |->
                         [k |-> i, v |-> pm.values[i][col]]], tie)
    IN  [index   |-> [i \in 1..Len(order) |-> pm.index[order[i].k]],
         columns |-> pm.columns,
         values  |-> [i \in 1..Len(order) |-> pm.values[order[i].k]]]

\* line 162: drop('hapgye', axis=1)
DropColumn(pm, name) ==
    LET col == ColumnOf(pm, name)
    IN  [index   |-> pm.index,
         columns |-> RemoveAt(pm.columns, col),
         values  |-> [i \in 1..Len(pm.values) |->
                        RemoveAt(pm.values[i], col)]]

\* lines 146-162
ProcessModel(t, tie) ==
    LET keep == HeatModels(t, tie)
        filtered_data == SelectSeq(t.rows, LAMBDA r : r.modelmyeong \in keep)
    IN  DropColumn(SortRows(AddTotals(PivotTable(filtered_data)), tie),
                   Hapgye)

(***************************************************************************)
(* Inputs of create_charts: cleaned tables.                                *)
(***************************************************************************)
MaxModels == 22   \* identifiers of a table
MaxStride == 2    \* how the counts vary from one identifier to the next

\* "M01", "M02", ...
Name(i) == <<77, 48 + (i \div 10), 48 + (i % 10)>>

\* identifier i has the count 1 + (i * stride) mod 3 under one category
\* and, when two is set and i is even, the count 1 under another one; the
\* rows stand in descending order of identifier
RECURSIVE ChartRaw(_, _, _)
ChartRaw(n, stride, two) ==
    IF n = 0 THEN <<>>
    ELSE (IF two /\ n % 2 = 0
          THEN <<Row(Str(Name(n)), Str(Dansun), Num(1))>> ELSE <<>>)
         \o <<Row(Str(Name(n)), Str(SugeoA), Num(1 + ((n * stride) % 3)))>>
         \o ChartRaw(n - 1, stride, two)

ChartTables ==
    { clean_dataframe(Table(required_columns, ChartRaw(n, stride, two))) :
        n \in 1..MaxModels, stride \in 0..MaxStride, two \in BOOLEAN }

InitCharts ==
    /\ data \in ChartTables
    /\ top_models = <<>>
    /\ process_model = [index |-> <<>>, columns |-> <<>>, values |-> <<>>]
    /\ rpc = "input"
    /\ MainIdle
    /\ df = NotRun /\ out = NotRun /\ df2 = NotRun /\ out2 = NotRun
    /\ edits = <<>> /\ cpc = "idle"

\* lines 101-173 for a table that is neither absent nor empty
create_charts ==
    /\ rpc = "input"
    /\ ~data.null /\ ~empty(data)
    /\ \E tie \in 0..Len(data.rows) : top_models' = TopModels(data, tie)
    /\ \E tie \in 0..Len(data.rows) :
          process_model' = ProcessModel(data, tie)
    /\ rpc' = "rendered"
    /\ UNCHANGED data
    /\ UNCHANGED cleanVars /\ UNCHANGED mainVars

NextCharts == create_charts

SpecCharts == InitCharts /\ [][NextCharts]_vars


(***************************************************************************)
(* Properties of create_charts.                                            *)
(***************************************************************************)
Rendered == rpc = "rendered"

ModelsOf(t) == {t.rows[i].modelmyeong : i \in 1..Len(t.rows)}

\* the summed count of one identifier, over every row of the table
TotalOf(t, m) ==
    SumSeq([i \in 1..Len(t.rows) |->
               IF t.rows[i].modelmyeong = m THEN t.rows[i].suryang ELSE 0])

\* the summed count of one (identifier, category)
PairTotal(t, m, c) ==
    SumSeq([i \in 1..Len(t.rows) |->
               IF t.rows[i].modelmyeong = m /\ t.rows[i].cheoribangsik = c
               THEN t.rows[i].suryang ELSE 0])

\* where an identifier first occurs in the table
FirstRow(t, m) ==
    CHOOSE i \in 1..Len(t.rows) :
        /\ t.rows[i].modelmyeong = m
        /\ \A j \in 1..(i - 1) : t.rows[j].modelmyeong # m

Min(a, b) == IF a < b THEN a ELSE b

Shown == {top_models[i].k : i \in 1..Len(top_models)}

\* the bar chart shows min(10, n) different identifiers with their summed
\* counts, in descending order, and none that is left out has a larger sum
TopTenByCount ==
    /\ Len(top_models) = Min(BarHead, Cardinality(ModelsOf(data)))
    /\ Cardinality(Shown) = Len(top_models)
    /\ Shown \subseteq ModelsOf(data)
    /\ \A i \in 1..Len(top_models) :
          top_models[i].v = TotalOf(data, top_models[i].k)
    /\ \A i \in 1..(Len(top_models) - 1) :
          top_models[i].v >= top_models[i + 1].v
    /\ \A m \in ModelsOf(data) \ Shown, i \in 1..Len(top_models) :
          TotalOf(data, m) <= top_models[i].v

\* identifiers with equal sums stand in the order in which the table first
\* has them, and that order decides which of them the cut keeps
TiesByFirstEncounter ==
    /\ \A i, j \in 1..Len(top_models) :
          (i < j /\ top_models[i].v = top_models[j].v) =>
              FirstRow(data, top_models[i].k) < FirstRow(data, top_models[j].k)
    /\ \A m \in ModelsOf(data) \ Shown, i \in 1..Len(top_models) :
          TotalOf(data, m) = top_models[i].v =>
              FirstRow(data, top_models[i].k) < FirstRow(data, m)

\* C8 as stated: min(10, n) identifiers, those with the largest sums, in
\* descending order, equal sums ordered and cut by first-encountered order.
C8_Original == Rendered => (TopTenByCount /\ TiesByFirstEncounter)

\* C8 as amended: min(10, n) identifiers, those with the largest sums, in
\* descending order of their sums; the order of identifiers with equal
\* sums, and which of them the cut keeps, is not determined.
C8_TopTenDescending == Rendered => TopTenByCount

\* the case of C8: more than ten identifiers, and the sum of the last one
\* shown is also the sum of one that is left out
C8_Witness ==
    /\ Rendered
    /\ Cardinality(ModelsOf(data)) > BarHead
    /\ \E m \in ModelsOf(data) \ Shown :
          TotalOf(data, m) = top_models[Len(top_models)].v
    /\ \E i \in 1..(Len(top_models) - 1) :
          top_models[i].v > top_models[i + 1].v

HeatRows == {process_model.index[i] : i \in 1..Len(process_model.index)}

HeatColumns ==
    {process_model.columns[j] : j \in 1..Len(process_model.columns)}

\* C9: the heat map has one row for each of the min(20, n) identifiers with
\* the largest total counts, one column per category found among their
\* rows, in every cell the summed count of that identifier and category (0
\* where there is none), the rows in descending order of their totals, and
\* no row-total column.
C9_HeatMapMatrix ==
    Rendered =>
        /\ Len(process_model.index)
              = Min(HeatHead, Cardinality(ModelsOf(data)))
        /\ Cardinality(HeatRows) = Len(process_model.index)
        /\ HeatRows \subseteq ModelsOf(data)
        /\ \A m \in ModelsOf(data) \ HeatRows, k \in HeatRows :
              TotalOf(data, m) <= TotalOf(data, k)
        /\ Cardinality(HeatColumns) = Len(process_model.columns)
        /\ HeatColumns =
              {data.rows[i].cheoribangsik :
                  i \in {r \in 1..Len(data.rows) :
                            data.rows[r].modelmyeong \in HeatRows}}
        /\ Hapgye \notin HeatColumns
        /\ Len(process_model.values) = Len(process_model.index)
        /\ \A i \in 1..Len(process_model.index) :
              /\ Len(process_model.values[i]) = Len(process_model.columns)
              /\ \A j \in 1..Len(process_model.columns) :
                    process_model.values[i][j] =
                        PairTotal(data, process_model.index[i],
                                  process_model.columns[j])
        /\ \A i \in 1..(Len(process_model.index) - 1) :
              SumSeq(process_model.values[i])
                  >= SumSeq(process_model.values[i + 1])

\* the case of C9: more than twenty identifiers, two categories, a cell
\* for a combination the table does not have, and rows of different totals
C9_Witness ==
    /\ Rendered
    /\ Cardinality(ModelsOf(data)) > HeatHead
    /\ Len(process_model.columns) = 2
    /\ \E i \in 1..Len(process_model.index) : process_model.values[i][1] = 0
    /\ SumSeq(process_model.values[1])
          > SumSeq(process_model.values[Len(process_model.values)])


=============================================================================
